---- MODULE Spec2Model ----
(***************************************************************************)
(* Model of src/ui/render/markdown.rs: the Markdown document, its parse    *)
(* (a fold over the tokenizer's event stream), its link registry and its   *)
(* key-to-link selection.                                                  *)
(*                                                                         *)
(* A String is a sequence of one-character strings, so that formatting,    *)
(* concatenation and the registry's lexicographic order are computed.      *)
(* An Option is a sequence of length at most one: << >> is None, <<v>> is  *)
(* Some(v).  The raw input is represented by the event stream the external *)
(* tokenizer (pulldown_cmark, behind TextMergeStream) delivers for it.     *)
(***************************************************************************)
EXTENDS Integers, Sequences, FiniteSets, TLC

VARIABLES input, pos, pc, current_line, lines, state_stack, links, parsed_text, ret

vars == <<input, pos, pc, current_line, lines, state_stack, links, parsed_text, ret>>

None == << >>

Some(v) == <<v>>

(***************************************************************************)
(* Strings                                                                 *)
(***************************************************************************)

\* The byte values of the characters the model uses (ASCII).
CharCode ==
    (" " :> 32) @@ ("(" :> 40) @@ (")" :> 41) @@ ("*" :> 42) @@ ("." :> 46) @@
    ("0" :> 48) @@ ("1" :> 49) @@ ("2" :> 50) @@ ("3" :> 51) @@ ("4" :> 52) @@
    ("5" :> 53) @@ ("6" :> 54) @@ ("7" :> 55) @@ ("8" :> 56) @@ ("9" :> 57) @@
    ("H" :> 72) @@ ("W" :> 87) @@ ("[" :> 91) @@ ("]" :> 93) @@
    ("a" :> 97) @@ ("b" :> 98) @@ ("c" :> 99) @@ ("d" :> 100) @@ ("e" :> 101) @@
    ("h" :> 104) @@ ("i" :> 105) @@ ("k" :> 107) @@ ("l" :> 108) @@ ("n" :> 110) @@
    ("o" :> 111) @@ ("p" :> 112) @@ ("r" :> 114) @@ ("s" :> 115) @@ ("t" :> 116) @@
    ("u" :> 117) @@ ("w" :> 119) @@ ("x" :> 120)

\* String's Ord: byte-wise lexicographic, a proper prefix is smaller.
RECURSIVE StrLess(_, _)
StrLess(a, b) ==
    IF b = << >> THEN FALSE
    ELSE IF a = << >> THEN TRUE
    ELSE IF CharCode[Head(a)] # CharCode[Head(b)]
         THEN CharCode[Head(a)] < CharCode[Head(b)]
         ELSE StrLess(Tail(a), Tail(b))

\* str::repeat
RECURSIVE Repeat(_, _)
Repeat(s, n) == IF n = 0 THEN << >> ELSE s \o Repeat(s, n - 1)

\* Display of a usize: its decimal digits.
RECURSIVE Decimal(_)
Decimal(n) ==
    LET digit == <<"0", "1", "2", "3", "4", "5", "6", "7", "8", "9">>[(n % 10) + 1]
    IN  IF n < 10 THEN <<digit>> ELSE Decimal(n \div 10) \o <<digit>>

(***************************************************************************)
(* ratatui's Style, Span and Line, as far as the parse uses them           *)
(***************************************************************************)

StyleDefault == [fg |-> "None", add_modifier |-> {}]

AddModifier(style, m) == [style EXCEPT !.add_modifier = @ \cup {m}]

Fg(style, color) == [style EXCEPT !.fg = color]

SpanStyled(content, style) == [content |-> content, style |-> style]

SpanRaw(content) == SpanStyled(content, StyleDefault)

LineDefault == [spans |-> << >>, style |-> StyleDefault]

\* Line::styled(content, style): one raw span per line of content ("" has
\* no line, hence no span), the style set on the Line itself.
LineStyled(content, style) ==
    [spans |-> IF content = << >> THEN << >> ELSE <<SpanRaw(content)>>,
     style |-> style]

(***************************************************************************)
(* MarkdownState                                                           *)
(***************************************************************************)

Normal == [state |-> "Normal"]

Heading(level) == [state |-> "Heading", level |-> level]

Strong == [state |-> "Strong"]

Emphasis == [state |-> "Emphasis"]

Code == [state |-> "Code"]

ListState(list_type, nesting_level, item_number) ==
    [state |-> "List", list_type |-> list_type,
     nesting_level |-> nesting_level, item_number |-> item_number]

\* Mutant of Pop: the bottom element is never removed.
PopKeepBottom(stack) ==
    IF Len(stack) <= 1 THEN stack ELSE SubSeq(stack, 1, Len(stack) - 1)

\* Vec::pop: removes the last element, does nothing on an empty Vec.
Pop(stack) == IF stack = << >> THEN stack ELSE SubSeq(stack, 1, Len(stack) - 1)

\* The number of List states on the stack.
ListCount(stack) == Cardinality({i \in 1..Len(stack) : stack[i].state = "List"})

\* Mutant of HeadingStyle: level 2 takes the style of level 1.
HeadingStyleLevelTwoBold(level) ==
    IF level = 1 THEN AddModifier(StyleDefault, "BOLD")
    ELSE IF level = 2 THEN AddModifier(StyleDefault, "BOLD")
    ELSE Fg(StyleDefault, "Blue")

HeadingStyle(level) ==
    IF level = 1 THEN AddModifier(StyleDefault, "BOLD")
    ELSE IF level = 2 THEN AddModifier(StyleDefault, "ITALIC")
    ELSE Fg(StyleDefault, "Blue")

\* The style scan of a text-like event, from the top of the stack down from
\* index i: it stops at a Heading.
RECURSIVE ScanStyle(_, _, _)
ScanStyle(stack, i, style) ==
    IF i = 0 THEN style
    ELSE IF stack[i].state = "Heading" THEN style
    ELSE IF stack[i].state = "Strong"
         THEN ScanStyle(stack, i - 1, AddModifier(style, "BOLD"))
    ELSE IF stack[i].state = "Emphasis"
         THEN ScanStyle(stack, i - 1, AddModifier(style, "ITALIC"))
    ELSE ScanStyle(stack, i - 1, style)

\* Mutant of TextStyle: the scan does not stop at a Heading.
TextStyleThroughHeading(stack) ==
    LET has(kind) == \E i \in 1..Len(stack) : stack[i].state = kind
        bold == IF has("Strong") THEN AddModifier(StyleDefault, "BOLD") ELSE StyleDefault
    IN  IF has("Emphasis") THEN AddModifier(bold, "ITALIC") ELSE bold

TextStyle(stack) == ScanStyle(stack, Len(stack), StyleDefault)

\* Mutant of NearestList: the search runs from the bottom of the stack.
OutermostList(stack, i) ==
    IF \E j \in 1..i : stack[j].state = "List"
    THEN CHOOSE j \in 1..i :
            stack[j].state = "List" /\ \A k \in 1..(j - 1) : stack[k].state # "List"
    ELSE 0

\* The index of the List state nearest to the top of the stack, 0 if none.
RECURSIVE NearestList(_, _)
NearestList(stack, i) ==
    IF i = 0 THEN 0
    ELSE IF stack[i].state = "List" THEN i
    ELSE NearestList(stack, i - 1)

\* The span an item start appends for the list state it found.
ItemMarker(list_state) ==
    LET indent == Repeat(<<" ", " ">>, list_state.nesting_level)
        marker == IF list_state.list_type = "Unordered"
                  THEN <<"*", " ">>
                  ELSE Decimal(list_state.item_number) \o <<".", " ">>
    IN  SpanRaw(indent \o marker)

(***************************************************************************)
(* The link registry: a BTreeSet<String>, kept as its ascending sequence   *)
(***************************************************************************)

\* Mutant of BTreeInsert: a new string goes to the end, as in a Vec.
PushIfAbsent(set, s) ==
    IF \E i \in 1..Len(set) : set[i] = s THEN set ELSE Append(set, s)

\* BTreeSet::insert: s goes before the first larger element; an equal
\* element is kept as it is.
RECURSIVE BTreeInsert(_, _)
BTreeInsert(set, s) ==
    IF set = << >> THEN <<s>>
    ELSE IF Head(set) = s THEN set
    ELSE IF StrLess(s, Head(set)) THEN <<s>> \o set
    ELSE <<Head(set)>> \o BTreeInsert(Tail(set), s)

\* Mutant of LinkDest: a Shortcut link is formatted from its id, as a
\* Reference link is.
LinkDestShortcutById(tag) ==
    LET t == tag.link_type.kind IN
    CASE t = "Inline" -> <<"(">> \o tag.dest_url \o <<")">>
      [] t \in {"Reference", "Shortcut"} -> <<"[">> \o tag.id \o <<"]">>
      [] t = "ReferenceUnknown" -> <<"[", "u", "n", "k", "n", "o", "w", "n", "]">>
      [] t = "Collapsed" -> <<"[", "c", "o", "l", "l", "a", "p", "s", "e", "d", "]">>
      [] t = "CollapsedUnknown" ->
            <<"[", "c", "o", "l", "l", "a", "p", "s", "e", "d", " ",
              "u", "n", "k", "n", "o", "w", "n", "]">>
      [] t = "ShortcutUnknown" ->
            <<"[", "s", "h", "o", "r", "t", "c", "u", "t", " ",
              "u", "n", "k", "n", "o", "w", "n", "]">>
      [] t \in {"Autolink", "Email"} -> tag.dest_url
      [] t = "WikiLink" -> <<"[", "w", "i", "k", "i", "]">>

\* The string handle_link_tag formats for a link tag.
LinkDest(tag) ==
    LET t == tag.link_type.kind IN
    CASE t = "Inline" -> <<"(">> \o tag.dest_url \o <<")">>
      [] t = "Reference" -> <<"[">> \o tag.id \o <<"]">>
      [] t = "Shortcut" -> <<"[">> \o tag.title \o <<"]">>
      [] t = "ReferenceUnknown" -> <<"[", "u", "n", "k", "n", "o", "w", "n", "]">>
      [] t = "Collapsed" -> <<"[", "c", "o", "l", "l", "a", "p", "s", "e", "d", "]">>
      [] t = "CollapsedUnknown" ->
            <<"[", "c", "o", "l", "l", "a", "p", "s", "e", "d", " ",
              "u", "n", "k", "n", "o", "w", "n", "]">>
      [] t = "ShortcutUnknown" ->
            <<"[", "s", "h", "o", "r", "t", "c", "u", "t", " ",
              "u", "n", "k", "n", "o", "w", "n", "]">>
      [] t = "Autolink" -> tag.dest_url
      [] t = "Email" -> tag.dest_url
      [] t = "WikiLink" -> <<"[", "w", "i", "k", "i", "]">>

\* handle_link_tag: the registry after the tag; a tag that is no link
\* changes nothing.
HandleLinkTag(set, tag) ==
    IF tag.name = "Link" THEN BTreeInsert(set, LinkDest(tag)) ELSE set

(***************************************************************************)
(* The tokenizer's events                                                  *)
(***************************************************************************)

Start(tag) == [ev |-> "Start", tag |-> tag]

\* A TagEnd; the payload of TagEnd::Heading and TagEnd::List is left out,
\* the parse ignores it.
End(name) == [ev |-> "End", tag |-> [name |-> name]]

TagHeading(level) == [name |-> "Heading", level |-> level]

\* Tag::List(Option<u64>): the start number of an ordered list.
TagList(start) == [name |-> "List", start |-> start]

TagLink(link_type, dest_url, title, id) ==
    [name |-> "Link", link_type |-> link_type,
     dest_url |-> dest_url, title |-> title, id |-> id]

Tag(name) == [name |-> name]

\* The events that carry a text: Text, Code, InlineMath, DisplayMath,
\* InlineHtml, Html.
Leaf(kind, text) == [ev |-> kind, text |-> text]

Break(kind) == [ev |-> kind]

TextLikeKinds == {"InlineMath", "Code", "InlineHtml", "DisplayMath", "Html", "Text"}

\* The tags whose start arm is todo!().
TodoTags == {"BlockQuote", "Strikethrough", "Superscript", "Subscript"}

LinkTypes ==
    {[kind |-> k] : k \in {"Inline", "Reference", "Shortcut", "ReferenceUnknown",
                           "Collapsed", "CollapsedUnknown", "ShortcutUnknown",
                           "Autolink", "Email"}}
    \cup {[kind |-> "WikiLink", has_pothole |-> b] : b \in BOOLEAN}

(***************************************************************************)
(* Markdown::parse, one action per arm of its match                        *)
(***************************************************************************)

\* The for loop holds an event: the iterator is not exhausted.
Parsing == pc = "parse" /\ pos <= Len(input)

event == input[pos]

IsStart(name) == Parsing /\ event.ev = "Start" /\ event.tag.name = name

IsEnd(name) == Parsing /\ event.ev = "End" /\ event.tag.name = name

\* Mutant of StartHeading: the current line is replaced without being pushed.
StartHeadingNoFlush ==
    /\ IsStart("Heading")
    /\ current_line' = LineStyled(<< >>, HeadingStyle(event.tag.level))
    /\ state_stack' = Append(state_stack, Heading(event.tag.level))
    /\ pos' = pos + 1
    /\ UNCHANGED <<input, pc, lines, links, parsed_text, ret>>

StartHeading ==
    /\ IsStart("Heading")
    /\ lines' = IF current_line.spans # << >> THEN Append(lines, current_line) ELSE lines
    /\ current_line' = LineStyled(<< >>, HeadingStyle(event.tag.level))
    /\ state_stack' = Append(state_stack, Heading(event.tag.level))
    /\ pos' = pos + 1
    /\ UNCHANGED <<input, pc, links, parsed_text, ret>>

StartParagraph ==
    /\ IsStart("Paragraph")
    /\ IF current_line.spans # << >>
       THEN lines' = Append(lines, current_line) /\ current_line' = LineDefault
       ELSE UNCHANGED <<lines, current_line>>
    /\ pos' = pos + 1
    /\ UNCHANGED <<input, pc, state_stack, links, parsed_text, ret>>

StartStrong ==
    /\ IsStart("Strong")
    /\ state_stack' = Append(state_stack, Strong)
    /\ pos' = pos + 1
    /\ UNCHANGED <<input, pc, current_line, lines, links, parsed_text, ret>>

StartEmphasis ==
    /\ IsStart("Emphasis")
    /\ state_stack' = Append(state_stack, Emphasis)
    /\ pos' = pos + 1
    /\ UNCHANGED <<input, pc, current_line, lines, links, parsed_text, ret>>

StartCodeBlock ==
    /\ IsStart("CodeBlock")
    /\ state_stack' = Append(state_stack, Code)
    /\ pos' = pos + 1
    /\ UNCHANGED <<input, pc, current_line, lines, links, parsed_text, ret>>

StartList ==
    /\ IsStart("List")
    /\ IF current_line.spans # << >>
       THEN lines' = Append(lines, current_line) /\ current_line' = LineDefault
       ELSE UNCHANGED <<lines, current_line>>
    /\ LET list_type == IF event.tag.start # None THEN "Ordered" ELSE "Unordered"
           nesting_level == ListCount(state_stack)
       IN  state_stack' = Append(state_stack, ListState(list_type, nesting_level, 0))
    /\ pos' = pos + 1
    /\ UNCHANGED <<input, pc, links, parsed_text, ret>>

StartItem ==
    /\ IsStart("Item")
    /\ LET flushed == IF current_line.spans # << >> THEN LineDefault ELSE current_line
           i == NearestList(state_stack, Len(state_stack))
           list_state == [state_stack[i] EXCEPT !.item_number = @ + 1]
       IN  /\ lines' = IF current_line.spans # << >>
                       THEN Append(lines, current_line) ELSE lines
           /\ IF i = 0
              THEN /\ current_line' = flushed
                   /\ UNCHANGED state_stack
              ELSE /\ state_stack' = [state_stack EXCEPT ![i] = list_state]
                   /\ current_line' =
                        [flushed EXCEPT !.spans = Append(@, ItemMarker(list_state))]
    /\ pos' = pos + 1
    /\ UNCHANGED <<input, pc, links, parsed_text, ret>>

StartLink ==
    /\ IsStart("Link")
    /\ links' = HandleLinkTag(links, event.tag)
    /\ pos' = pos + 1
    /\ UNCHANGED <<input, pc, current_line, lines, state_stack, parsed_text, ret>>

\* todo!(): the parse panics, from_str never returns a Markdown.
StartTodo ==
    /\ Parsing /\ event.ev = "Start" /\ event.tag.name \in TodoTags
    /\ pc' = "panicked"
    /\ UNCHANGED <<input, pos, current_line, lines, state_stack, links, parsed_text, ret>>

\* Every other tag: the arm `_` of the start match.
StartOther ==
    /\ Parsing /\ event.ev = "Start"
    /\ event.tag.name \notin
          {"Heading", "Paragraph", "Strong", "Emphasis", "CodeBlock", "List",
           "Item", "Link"} \cup TodoTags
    /\ pos' = pos + 1
    /\ UNCHANGED <<input, pc, current_line, lines, state_stack, links, parsed_text, ret>>

\* Mutant of EndHeading: no blank line after the heading.
EndHeadingNoBlank ==
    /\ IsEnd("Heading")
    /\ lines' = Append(lines, current_line)
    /\ current_line' = LineDefault
    /\ state_stack' = Pop(state_stack)
    /\ pos' = pos + 1
    /\ UNCHANGED <<input, pc, links, parsed_text, ret>>

EndHeading ==
    /\ IsEnd("Heading")
    /\ lines' = Append(Append(lines, current_line), LineDefault)
    /\ current_line' = LineDefault
    /\ state_stack' = Pop(state_stack)
    /\ pos' = pos + 1
    /\ UNCHANGED <<input, pc, links, parsed_text, ret>>

\* Mutant of EndParagraph: no blank line after the paragraph.
EndParagraphNoBlank ==
    /\ IsEnd("Paragraph")
    /\ lines' = Append(lines, current_line)
    /\ current_line' = LineDefault
    /\ pos' = pos + 1
    /\ UNCHANGED <<input, pc, state_stack, links, parsed_text, ret>>

\* Mutant of EndParagraph: the paragraph end pops a context, as a heading
\* end does.
EndParagraphPops ==
    /\ IsEnd("Paragraph")
    /\ lines' = Append(Append(lines, current_line), LineDefault)
    /\ current_line' = LineDefault
    /\ state_stack' = Pop(state_stack)
    /\ pos' = pos + 1
    /\ UNCHANGED <<input, pc, links, parsed_text, ret>>

EndParagraph ==
    /\ IsEnd("Paragraph")
    /\ lines' = Append(Append(lines, current_line), LineDefault)
    /\ current_line' = LineDefault
    /\ pos' = pos + 1
    /\ UNCHANGED <<input, pc, state_stack, links, parsed_text, ret>>

EndStrong ==
    /\ IsEnd("Strong")
    /\ state_stack' = Pop(state_stack)
    /\ pos' = pos + 1
    /\ UNCHANGED <<input, pc, current_line, lines, links, parsed_text, ret>>

EndEmphasis ==
    /\ IsEnd("Emphasis")
    /\ state_stack' = Pop(state_stack)
    /\ pos' = pos + 1
    /\ UNCHANGED <<input, pc, current_line, lines, links, parsed_text, ret>>

EndCodeBlock ==
    /\ IsEnd("CodeBlock")
    /\ state_stack' = Pop(state_stack)
    /\ pos' = pos + 1
    /\ UNCHANGED <<input, pc, current_line, lines, links, parsed_text, ret>>

\* Mutant of EndItem: the item end pushes the current line even when it has
\* no spans.
EndItemAlways ==
    /\ IsEnd("Item")
    /\ lines' = Append(lines, current_line)
    /\ current_line' = LineDefault
    /\ pos' = pos + 1
    /\ UNCHANGED <<input, pc, state_stack, links, parsed_text, ret>>

EndItem ==
    /\ IsEnd("Item")
    /\ IF current_line.spans # << >>
       THEN lines' = Append(lines, current_line) /\ current_line' = LineDefault
       ELSE UNCHANGED <<lines, current_line>>
    /\ pos' = pos + 1
    /\ UNCHANGED <<input, pc, state_stack, links, parsed_text, ret>>

\* Mutant of EndList: the list end also takes the last Line off the output.
EndListTrim ==
    /\ IsEnd("List")
    /\ state_stack' = Pop(state_stack)
    /\ lines' = Pop(lines)
    /\ pos' = pos + 1
    /\ UNCHANGED <<input, pc, current_line, links, parsed_text, ret>>

\* The body of the `if` after the pop is commented out in the source.
EndList ==
    /\ IsEnd("List")
    /\ state_stack' = Pop(state_stack)
    /\ pos' = pos + 1
    /\ UNCHANGED <<input, pc, current_line, lines, links, parsed_text, ret>>

\* Every other TagEnd: the arm `_` of the end match.
EndOther ==
    /\ Parsing /\ event.ev = "End"
    /\ event.tag.name \notin
          {"Heading", "Paragraph", "Strong", "Emphasis", "CodeBlock", "Item", "List"}
    /\ pos' = pos + 1
    /\ UNCHANGED <<input, pc, current_line, lines, state_stack, links, parsed_text, ret>>

TextLike ==
    /\ Parsing /\ event.ev \in TextLikeKinds
    /\ current_line' =
          [current_line EXCEPT
              !.spans = Append(@, SpanStyled(event.text, TextStyle(state_stack)))]
    /\ pos' = pos + 1
    /\ UNCHANGED <<input, pc, lines, state_stack, links, parsed_text, ret>>

SoftBreak ==
    /\ Parsing /\ event.ev = "SoftBreak"
    /\ current_line' = [current_line EXCEPT !.spans = Append(@, SpanRaw(<<" ">>))]
    /\ pos' = pos + 1
    /\ UNCHANGED <<input, pc, lines, state_stack, links, parsed_text, ret>>

\* Mutant of HardBreak: an empty current line is not pushed.
HardBreakIfNonEmpty ==
    /\ Parsing /\ event.ev = "HardBreak"
    /\ lines' = IF current_line.spans # << >> THEN Append(lines, current_line) ELSE lines
    /\ current_line' = LineDefault
    /\ pos' = pos + 1
    /\ UNCHANGED <<input, pc, state_stack, links, parsed_text, ret>>

HardBreak ==
    /\ Parsing /\ event.ev = "HardBreak"
    /\ lines' = Append(lines, current_line)
    /\ current_line' = LineDefault
    /\ pos' = pos + 1
    /\ UNCHANGED <<input, pc, state_stack, links, parsed_text, ret>>

FootnoteReference ==
    /\ Parsing /\ event.ev = "FootnoteReference"
    /\ pos' = pos + 1
    /\ UNCHANGED <<input, pc, current_line, lines, state_stack, links, parsed_text, ret>>

\* Mutant of Rule: the thematic break flushes the current line.
RuleFlushes ==
    /\ Parsing /\ event.ev = "Rule"
    /\ lines' = Append(lines, current_line)
    /\ current_line' = LineDefault
    /\ pos' = pos + 1
    /\ UNCHANGED <<input, pc, state_stack, links, parsed_text, ret>>

Rule ==
    /\ Parsing /\ event.ev = "Rule"
    /\ pos' = pos + 1
    /\ UNCHANGED <<input, pc, current_line, lines, state_stack, links, parsed_text, ret>>

TaskListMarker ==
    /\ Parsing /\ event.ev = "TaskListMarker"
    /\ pos' = pos + 1
    /\ UNCHANGED <<input, pc, current_line, lines, state_stack, links, parsed_text, ret>>

\* After the loop: the remaining content, then parsed_text = Some(lines).
EndOfStream ==
    /\ pc = "parse" /\ pos = Len(input) + 1
    /\ lines' = IF current_line.spans # << >> THEN Append(lines, current_line) ELSE lines
    /\ parsed_text' = Some(lines')
    /\ pc' = "done"
    /\ UNCHANGED <<input, pos, current_line, state_stack, links, ret>>

(***************************************************************************)
(* The operations of a constructed Markdown                                *)
(***************************************************************************)

KeyChar(c) == [key |-> "Char", c |-> c]

\* The match of handle_input: the number of a digit key, None for any other.
KeyNum(code) ==
    IF code.key # "Char" THEN None
    ELSE CASE code.c = "0" -> Some(0)
           [] code.c = "1" -> Some(1)
           [] code.c = "2" -> Some(2)
           [] code.c = "3" -> Some(3)
           [] code.c = "4" -> Some(4)
           [] code.c = "5" -> Some(5)
           [] code.c = "6" -> Some(6)
           [] code.c = "7" -> Some(7)
           [] code.c = "8" -> Some(8)
           [] code.c = "9" -> Some(9)
           [] OTHER -> None

\* Mutant of Nth: the count starts at one.
NthFromOne(set, n) == IF 0 < n /\ n <= Len(set) THEN Some(set[n]) ELSE None

\* Iterator::nth on the registry's ascending iteration, cloned.
Nth(set, n) == IF n < Len(set) THEN Some(set[n + 1]) ELSE None

HandleInputValue(set, code) ==
    IF KeyNum(code) = None THEN None ELSE Nth(set, KeyNum(code)[1])

\* Text::raw(&self.input): the input itself, unstyled.
TextRaw(in) == <<[spans |-> <<[content |-> in, style |-> StyleDefault]>>,
                 style |-> StyleDefault]>>

GetTextValue(parsed, in) == IF parsed # None THEN parsed[1] ELSE TextRaw(in)

\* The keys the keyboard collaborator sends.
KeyCodes ==
    {KeyChar(c) : c \in {"0", "1", "2", "3", "4", "5", "6", "7", "8", "9", "a", " "}}
    \cup {[key |-> "Enter"], [key |-> "Esc"]}

\* Mutant of HandleInput: the selected link is taken out of the registry.
HandleInputTake ==
    /\ pc = "done"
    /\ \E code \in KeyCodes :
          /\ ret' = [op |-> "handle_input", code |-> code,
                     value |-> HandleInputValue(links, code)]
          /\ links' = IF HandleInputValue(links, code) = None THEN links
                      ELSE LET n == KeyNum(code)[1] + 1
                           IN  SubSeq(links, 1, n - 1) \o SubSeq(links, n + 1, Len(links))
    /\ UNCHANGED <<input, pos, pc, current_line, lines, state_stack, parsed_text>>

HandleInput ==
    /\ pc = "done"
    /\ \E code \in KeyCodes :
          ret' = [op |-> "handle_input", code |-> code,
                  value |-> HandleInputValue(links, code)]
    /\ UNCHANGED <<input, pos, pc, current_line, lines, state_stack, links, parsed_text>>

GetText ==
    /\ pc = "done"
    /\ ret' = [op |-> "get_text", text |-> GetTextValue(parsed_text, input)]
    /\ UNCHANGED <<input, pos, pc, current_line, lines, state_stack, links, parsed_text>>

(***************************************************************************)
(* The inputs                                                              *)
(***************************************************************************)

\* Every tokenizer stream of at most MaxAny events.
MaxAny == 2

\* Every stream of block events of at most MaxBlock events.
MaxBlock == 4

\* Every stream of inline style events of at most MaxStyle events.
MaxStyle == 4

\* Every well-nested stream of list events of at most MaxList events.
MaxList == 8

\* Every stream of link starts of at most MaxLinks events.
MaxLinks == 3

\* Every tokenizer stream of at most MaxShort events, for a whole Document.
MaxShort == 1

SeqsUpTo(S, n) == UNION {[1..k -> S] : k \in 0..n}

TextA == <<"a">>

TextB == <<"b">>

Hello == <<"H", "e", "l", "l", "o">>

World == <<"W", "o", "r", "l", "d">>

Payloads == {TextA, TextB, Hello, World}

UrlA == <<"a">>

UrlB == <<"b">>

TitleT == <<"t">>

IdI == <<"i">>

AllEvents ==
    {Start(TagHeading(l)) : l \in 1..6}
    \cup {Start(Tag(n)) : n \in {"Paragraph", "Strong", "Emphasis", "CodeBlock",
                                 "Item", "Image"} \cup TodoTags}
    \cup {Start(TagList(s)) : s \in {None, Some(1), Some(7)}}
    \cup {Start(TagLink(t, UrlA, TitleT, IdI)) : t \in LinkTypes}
    \cup {End(n) : n \in {"Heading", "Paragraph", "Strong", "Emphasis", "CodeBlock",
                          "Item", "List", "Link", "Image"}}
    \cup {Leaf(k, TextA) : k \in TextLikeKinds}
    \cup {Break(k) : k \in {"SoftBreak", "HardBreak", "FootnoteReference", "Rule",
                            "TaskListMarker"}}

AnyStreams == SeqsUpTo(AllEvents, MaxAny)

BlockEvents ==
    {Start(TagHeading(1)), Start(TagHeading(3)), End("Heading"),
     Start(Tag("Paragraph")), End("Paragraph"),
     Leaf("Text", TextA), Leaf("Text", TextB), Break("HardBreak")}

BlockStreams == SeqsUpTo(BlockEvents, MaxBlock)

\* "# X", for every level and text.
HeadingStreams ==
    {<<Start(TagHeading(l)), Leaf("Text", x), End("Heading")>> :
        l \in 1..6, x \in Payloads}

\* "# X\n\nY", for every level and texts; "# Hello\n\nWorld" is one.
HeadingParagraphStreams ==
    {<<Start(TagHeading(l)), Leaf("Text", x), End("Heading"),
       Start(Tag("Paragraph")), Leaf("Text", y), End("Paragraph")>> :
        l \in 1..6, x \in Payloads, y \in Payloads}

\* "x\\\ny": a paragraph with a hard break.
HardBreakStreams ==
    {<<Start(Tag("Paragraph")), Leaf("Text", x), Break("HardBreak"),
       Leaf("Text", y), End("Paragraph")>> : x \in Payloads, y \in Payloads}

StyleEvents ==
    {Start(Tag("Strong")), Start(Tag("Emphasis")), Start(TagHeading(1)),
     End("Strong"), End("Emphasis"), End("Heading"), Leaf("Text", TextA)}

StyleStreams == SeqsUpTo(StyleEvents, MaxStyle)

\* The names of the tags open after s, innermost last.
RECURSIVE OpenTags(_)
OpenTags(s) ==
    IF s = << >> THEN << >>
    ELSE LET e == s[Len(s)]
             open == OpenTags(SubSeq(s, 1, Len(s) - 1))
         IN  IF e.ev = "Start" THEN Append(open, e.tag.name)
             ELSE IF e.ev = "End" THEN SubSeq(open, 1, Len(open) - 1)
             ELSE open

\* What the tokenizer can deliver after the list events s: a list at the
\* top and in an item, items in a list, text in an item, and the end of
\* the innermost open tag.
ListEventsAfter(s) ==
    LET open == OpenTags(s)
        top == IF open = << >> THEN "" ELSE open[Len(open)]
        lists == {Start(TagList(Some(7))), Start(TagList(None))}
    IN  IF top = "" THEN lists
        ELSE IF top = "List" THEN {Start(Tag("Item")), End("List")}
        ELSE lists \cup {Leaf("Text", TextA), End("Item")}

RECURSIVE ListStreamsOfLen(_)
ListStreamsOfLen(n) ==
    IF n = 0 THEN {<< >>}
    ELSE UNION {{Append(s, e) : e \in ListEventsAfter(s)} : s \in ListStreamsOfLen(n - 1)}

ListStreams == UNION {ListStreamsOfLen(n) : n \in 0..MaxList}

\* "* X\n\n" and "1. X\n\n": a loose list, whose item wraps its text in a
\* paragraph.
LooseListStreams ==
    {<<Start(TagList(st)), Start(Tag("Item")), Start(Tag("Paragraph")),
       Leaf("Text", x), End("Paragraph"), End("Item"), End("List")>> :
        st \in {None, Some(1)}, x \in Payloads}

LinkEvents ==
    {Start(TagLink([kind |-> "Inline"], UrlA, TitleT, IdI)),
     Start(TagLink([kind |-> "Inline"], UrlB, TitleT, IdI)),
     Start(TagLink([kind |-> "Inline"], UrlA, TextB, World)),
     Start(TagLink([kind |-> "Reference"], UrlA, TitleT, IdI)),
     Start(TagLink([kind |-> "Shortcut"], UrlA, TitleT, IdI)),
     Start(TagLink([kind |-> "Shortcut"], UrlB, IdI, TitleT)),
     Start(TagLink([kind |-> "Autolink"], UrlB, TitleT, IdI)),
     Start(TagLink([kind |-> "Email"], UrlB, TitleT, IdI)),
     Start(TagLink([kind |-> "Collapsed"], UrlA, TitleT, IdI)),
     Start(TagLink([kind |-> "WikiLink", has_pothole |-> TRUE], Hello, TitleT, IdI))}

LinkStreams == SeqsUpTo(LinkEvents, MaxLinks)

ParseInputs ==
    AnyStreams \cup BlockStreams \cup HeadingStreams \cup HeadingParagraphStreams
    \cup HardBreakStreams \cup StyleStreams \cup ListStreams \cup LooseListStreams

DocumentInputs == SeqsUpTo(AllEvents, MaxShort) \cup LinkStreams

(***************************************************************************)
(* Markdown::from_str                                                      *)
(***************************************************************************)

\* from_str up to the first event of parse: the fields as constructed, the
\* locals of parse as initialised.
FromStr(in) ==
    /\ input = in
    /\ links = << >>
    /\ parsed_text = None
    /\ current_line = LineDefault
    /\ lines = << >>
    /\ state_stack = <<Normal>>
    /\ pos = 1
    /\ pc = "parse"
    /\ ret = [op |-> "none"]

Init == \E in \in DocumentInputs : FromStr(in)

InitParse == \E in \in ParseInputs : FromStr(in)

Parse ==
    \/ StartHeading
    \/ StartParagraph
    \/ StartStrong
    \/ StartEmphasis
    \/ StartCodeBlock
    \/ StartList
    \/ StartItem
    \/ StartLink
    \/ StartTodo
    \/ StartOther
    \/ EndHeading
    \/ EndParagraph
    \/ EndStrong
    \/ EndEmphasis
    \/ EndCodeBlock
    \/ EndItem
    \/ EndList
    \/ EndOther
    \/ TextLike
    \/ SoftBreak
    \/ HardBreak
    \/ FootnoteReference
    \/ Rule
    \/ TaskListMarker
    \/ EndOfStream

Next == Parse \/ HandleInput \/ GetText

\* A Document from its construction on.
Spec == Init /\ [][Next]_vars

\* The parse alone.
SpecParse == InitParse /\ [][Parse]_vars

(***************************************************************************)
(* The claims.  What a claim expects is written out here, not taken from   *)
(* the definitions above.                                                  *)
(***************************************************************************)

Unstyled == [fg |-> "None", add_modifier |-> {}]

BlankLine == [spans |-> << >>, style |-> Unstyled]

PlainLine(t) == [spans |-> <<[content |-> t, style |-> Unstyled]>>, style |-> Unstyled]

\* The input is [paragraph start, text t, paragraph end] for some t.
IsPlainParagraph ==
    /\ Len(input) = 3
    /\ input[1] = Start(Tag("Paragraph"))
    /\ input[2].ev = "Text"
    /\ input[3] = End("Paragraph")

\* C1, as claimed: an input with no markup, [paragraph start, text t,
\* paragraph end], parses to exactly one Line holding the one unstyled Span
\* t, with no trailing blank Line.
C1_Original ==
    (pc = "done" /\ IsPlainParagraph) => parsed_text = Some(<<PlainLine(input[2].text)>>)

\* C1, amended: an input with no markup, [paragraph start, text t, paragraph
\* end], parses to exactly two Lines: one Line holding the one unstyled
\* Span t, then the one blank Line the paragraph end adds.
C1_PlainParagraph ==
    (pc = "done" /\ IsPlainParagraph) =>
        parsed_text = Some(<<PlainLine(input[2].text), BlankLine>>)

C1_Witness == pc = "done" /\ IsPlainParagraph /\ input[2].text = TextB

HelloWorldInput ==
    <<Start(TagHeading(1)), Leaf("Text", Hello), End("Heading"),
      Start(Tag("Paragraph")), Leaf("Text", World), End("Paragraph")>>

BoldHello ==
    [spans |-> <<[content |-> Hello, style |-> Unstyled]>>,
     style |-> [fg |-> "None", add_modifier |-> {"BOLD"}]]

\* C2, as claimed: "# Hello\n\nWorld" parses to exactly the three Lines
\* [bold "Hello", blank, plain "World"], no Line after them.
C2_Original ==
    (pc = "done" /\ input = HelloWorldInput) =>
        parsed_text = Some(<<BoldHello, BlankLine, PlainLine(World)>>)

\* C2, amended: "# Hello\n\nWorld" parses to exactly the four Lines
\* [bold "Hello", blank, plain "World", blank]: the paragraph end adds a
\* blank Line after "World".
C2_HelloWorld ==
    (pc = "done" /\ input = HelloWorldInput) =>
        parsed_text = Some(<<BoldHello, BlankLine, PlainLine(World), BlankLine>>)

C2_Witness == pc = "done" /\ input = HelloWorldInput /\ Len(lines) = 4

\* The input is [heading(L) start, text X, heading end] for some L and X.
IsHeadingOnly ==
    /\ Len(input) = 3
    /\ input[1].ev = "Start" /\ input[1].tag.name = "Heading"
    /\ input[2].ev = "Text"
    /\ input[3] = End("Heading")

\* C3: [heading(L) start, text X, heading end] parses to a Line that holds
\* X, with line style bold for L = 1, italic for L = 2, and a foreground
\* colour with neither bold nor italic for L in 3..6, followed by exactly
\* one blank Line and nothing else.
C3_HeadingLine ==
    (pc = "done" /\ IsHeadingOnly) =>
        LET L == input[1].tag.level
            out == parsed_text[1]
        IN  /\ parsed_text # None
            /\ Len(out) = 2
            /\ \E i \in 1..Len(out[1].spans) : out[1].spans[i].content = input[2].text
            /\ L = 1 => "BOLD" \in out[1].style.add_modifier
            /\ L = 2 => "ITALIC" \in out[1].style.add_modifier
            /\ L \in 3..6 => /\ out[1].style.fg # "None"
                             /\ out[1].style.add_modifier \cap {"BOLD", "ITALIC"} = {}
            /\ out[2] = BlankLine

C3_Witness ==
    /\ pc = "done" /\ IsHeadingOnly /\ input[1].tag.level = 6
    /\ parsed_text[1][1].style.fg = "Blue"

HardBreakInput ==
    <<Start(Tag("Paragraph")), Leaf("Text", TextA), Break("HardBreak"),
      Leaf("Text", TextB), End("Paragraph")>>

\* A hard break pushes the current line, empty or not, adds exactly that
\* one Line to the output and leaves an empty current line.
HardBreakPushes ==
    (Parsing /\ event.ev = "HardBreak") =>
        /\ Len(lines') = Len(lines) + 1
        /\ SubSeq(lines', 1, Len(lines)) = lines
        /\ lines'[Len(lines')] = current_line
        /\ current_line'.spans = << >>

\* C4, as claimed: [paragraph start, "a", hard break, "b", paragraph end]
\* parses to the two Lines ["a", "b"], and a hard break pushes the current
\* line even when it is empty, adds exactly one Line, leaves an empty line.
C4_Original ==
    /\ []((pc = "done" /\ input = HardBreakInput) =>
            parsed_text = Some(<<PlainLine(TextA), PlainLine(TextB)>>))
    /\ [][HardBreakPushes]_vars

\* C4, amended: [paragraph start, "a", hard break, "b", paragraph end]
\* parses to the Lines ["a", "b"] with no blank Line between them, followed
\* by the one blank Line of the paragraph end; and a hard break pushes the
\* current line even when it is empty, adds exactly one Line and leaves an
\* empty current line.
C4_HardBreak ==
    /\ []((pc = "done" /\ input = HardBreakInput) =>
            parsed_text = Some(<<PlainLine(TextA), PlainLine(TextB), BlankLine>>))
    /\ [][HardBreakPushes]_vars

C4_Witness ==
    /\ pc = "done" /\ input = HardBreakInput
    /\ Len(lines) = 3 /\ lines[1] = PlainLine(TextA) /\ lines[2] = PlainLine(TextB)

\* The index of the innermost Heading on the stack, 0 if there is none.
InnermostHeading ==
    IF \E i \in 1..Len(state_stack) : state_stack[i].state = "Heading"
    THEN CHOOSE i \in 1..Len(state_stack) :
            /\ state_stack[i].state = "Heading"
            /\ \A j \in (i + 1)..Len(state_stack) : state_stack[j].state # "Heading"
    ELSE 0

\* A context of this kind lies on the stack above the innermost Heading.
InScope(kind) ==
    \E i \in (InnermostHeading + 1)..Len(state_stack) : state_stack[i].state = kind

SpansOf(ls) == UNION {{l.spans[i] : i \in 1..Len(l.spans)} : l \in {ls[j] : j \in 1..Len(ls)}}

\* C5: the Span a text-like event appends is bold exactly when a Strong
\* context lies above the innermost Heading (anywhere without a Heading),
\* italic exactly when an Emphasis context does, and no Span ever has
\* another style attribute (a colour, another modifier).
C5_SpanStyle ==
    /\ [](\A sp \in SpansOf(Append(lines, current_line)) :
            sp.style.fg = "None" /\ sp.style.add_modifier \subseteq {"BOLD", "ITALIC"})
    /\ [][(Parsing /\ event.ev \in TextLikeKinds) =>
            LET sp == current_line'.spans[Len(current_line'.spans)]
            IN  /\ Len(current_line'.spans) = Len(current_line.spans) + 1
                /\ sp.content = event.text
                /\ ("BOLD" \in sp.style.add_modifier) <=> InScope("Strong")
                /\ ("ITALIC" \in sp.style.add_modifier) <=> InScope("Emphasis")]_vars

\* Text in emphasis in strong got both modifiers.
C5_Witness ==
    /\ pos = 4
    /\ state_stack = <<Normal, Strong, Emphasis>>
    /\ input[3].ev = "Text"
    /\ Len(current_line.spans) = 1
    /\ current_line.spans[1].style.add_modifier = {"BOLD", "ITALIC"}

\* The positions of the start events open before event n + 1 of s,
\* innermost last; <<0>> when an end event among the first n does not close
\* the innermost open start.
RECURSIVE OpenStarts(_, _)
OpenStarts(s, n) ==
    IF n = 0 THEN << >>
    ELSE LET open == OpenStarts(s, n - 1)
         IN  IF open = <<0>> THEN <<0>>
             ELSE IF s[n].ev = "Start" THEN Append(open, n)
             ELSE IF s[n].ev = "End"
                  THEN IF open # << >> /\ s[open[Len(open)]].tag.name = s[n].tag.name
                       THEN SubSeq(open, 1, Len(open) - 1)
                       ELSE <<0>>
             ELSE open

\* The open list starts among the open starts.
OpenLists(s, n) ==
    LET open == OpenStarts(s, n)
    IN  {open[i] : i \in {j \in 1..Len(open) : s[open[j]].tag.name = "List"}}

Max(S) == CHOOSE x \in S : \A y \in S : y <= x

\* The list the item start at position p of s belongs to: the position of
\* the innermost list start open at p.
ListOf(s, p) == Max(OpenLists(s, p - 1))

\* The marker the claim gives the item start at position p of s: k counts
\* the item starts of the same list up to p, d the lists open when that
\* list started.
ClaimedMarker(s, p) ==
    LET l == ListOf(s, p)
        k == Cardinality({q \in (l + 1)..p :
                            /\ s[q] = Start(Tag("Item"))
                            /\ OpenLists(s, q - 1) # {}
                            /\ ListOf(s, q) = l})
        d == Cardinality(OpenLists(s, l - 1))
        spaces == [i \in 1..(2 * d) |-> " "]
        number == <<<<"1">>, <<"2">>, <<"3">>, <<"4">>, <<"5">>, <<"6">>, <<"7">>,
                    <<"8">>, <<"9">>, <<"1", "0">>>>[k]
    IN  spaces \o (IF s[l].tag.start = None THEN <<"*", " ">> ELSE number \o <<".", " ">>)

\* C6: in a balanced stream the k-th item start of an ordered list appends
\* "k. " whatever the list's start number, an item start of an unordered
\* list appends "* ", after 2*d spaces for a list started with d lists open;
\* a list start creates a context with item count 0, so nested lists count
\* from 1 and the enclosing list resumes its count.
C6_ListMarkers ==
    [][/\ (IsStart("Item") /\ OpenStarts(input, pos - 1) # <<0>>
           /\ OpenLists(input, pos - 1) # {}) =>
             /\ Len(current_line'.spans) = 1
             /\ current_line'.spans[1] =
                  [content |-> ClaimedMarker(input, pos), style |-> Unstyled]
       /\ IsStart("List") =>
             /\ Len(state_stack') = Len(state_stack) + 1
             /\ state_stack'[Len(state_stack')].state = "List"
             /\ state_stack'[Len(state_stack')].item_number = 0]_vars

\* The second item of an ordered list that started at 7 gets "2. ", after
\* an item of a nested list got "  1. ".
C6_Witness ==
    /\ pos = 9
    /\ input[1] = Start(TagList(Some(7)))
    /\ input[3] = Start(TagList(Some(7)))
    /\ current_line.spans = <<[content |-> <<"2", ".", " ">>, style |-> Unstyled]>>
    /\ Len(lines) = 2
    /\ lines[1].spans[1].content = <<"1", ".", " ">>
    /\ lines[2].spans[1].content = <<" ", " ", "1", ".", " ">>

\* Lexicographic order of strings by character code: a differs from b, and
\* at the first place where they differ a has ended or has the smaller
\* character.
LexLess(a, b) ==
    /\ a # b
    /\ LET common == {i \in 1..Len(a) : i <= Len(b) /\ SubSeq(a, 1, i) = SubSeq(b, 1, i)}
           n == Cardinality(common)
       IN  \/ n = Len(a)
           \/ n < Len(b) /\ CharCode[a[n + 1]] < CharCode[b[n + 1]]

\* The formatted string the rule table gives a link tag.
ClaimedDest(tag) ==
    LET t == tag.link_type.kind IN
    IF t = "Inline" THEN <<"(">> \o tag.dest_url \o <<")">>
    ELSE IF t = "Reference" THEN <<"[">> \o tag.id \o <<"]">>
    ELSE IF t = "Shortcut" THEN <<"[">> \o tag.title \o <<"]">>
    ELSE IF t = "ReferenceUnknown" THEN <<"[", "u", "n", "k", "n", "o", "w", "n", "]">>
    ELSE IF t = "Collapsed" THEN <<"[", "c", "o", "l", "l", "a", "p", "s", "e", "d", "]">>
    ELSE IF t = "CollapsedUnknown"
         THEN <<"[", "c", "o", "l", "l", "a", "p", "s", "e", "d">> \o <<" ">>
              \o <<"u", "n", "k", "n", "o", "w", "n", "]">>
    ELSE IF t = "ShortcutUnknown"
         THEN <<"[", "s", "h", "o", "r", "t", "c", "u", "t">> \o <<" ">>
              \o <<"u", "n", "k", "n", "o", "w", "n", "]">>
    ELSE IF t \in {"Autolink", "Email"} THEN tag.dest_url
    ELSE <<"[", "w", "i", "k", "i", "]">>

\* The positions of the link start events the parse has handled.
LinkStartsDone ==
    {i \in 1..(pos - 1) : input[i].ev = "Start" /\ input[i].tag.name = "Link"}

Entries(set) == {set[i] : i \in 1..Len(set)}

\* C7: the registry holds exactly the distinct formatted strings of the
\* link starts handled so far, one entry each, and iterates in ascending
\* lexicographic order, whatever order the links came in.
C7_Registry ==
    LET dests == {ClaimedDest(input[i].tag) : i \in LinkStartsDone}
    IN  /\ Entries(links) = dests
        /\ Len(links) = Cardinality(dests)
        /\ \A i \in 1..Len(links) : \A j \in (i + 1)..Len(links) : LexLess(links[i], links[j])

\* Three links, two of them formatted alike, gave two entries, and the
\* entry of the first link iterates last.
C7_Witness ==
    /\ pc = "done"
    /\ Cardinality(LinkStartsDone) = 3
    /\ Len(links) = 2
    /\ ClaimedDest(input[1].tag) = links[2]
    /\ ClaimedDest(input[2].tag) = links[1]
    /\ ClaimedDest(input[3].tag) = links[2]
    /\ input[3] # input[1]

\* C8: a link start inserts exactly one string, the one the rule table
\* gives its link type from its url, title and id.
C8_LinkFormat ==
    [][IsStart("Link") =>
         /\ Entries(links') = Entries(links) \cup {ClaimedDest(event.tag)}
         /\ Len(links') = Cardinality(Entries(links'))]_vars

\* A Shortcut link whose title and id differ was inserted under its title.
C8_Witness ==
    /\ pos = 2
    /\ input[1].ev = "Start" /\ input[1].tag.name = "Link"
    /\ input[1].tag.link_type.kind = "Shortcut"
    /\ input[1].tag.title = IdI /\ input[1].tag.id = TitleT
    /\ links = <<<<"[", "i", "]">>>>

\* The digit a key stands for: << >> if it is no digit key.
ClaimedDigit(code) ==
    IF code.key = "Char" /\ code.c \in {"0", "1", "2", "3", "4", "5", "6", "7", "8", "9"}
    THEN <<CharCode[code.c] - CharCode["0"]>>
    ELSE << >>

\* The entries of the registry that have exactly d smaller entries.
ClaimedSelection(d) ==
    {e \in Entries(links) : Cardinality({x \in Entries(links) : LexLess(x, e)}) = d}

\* C9: handle_input returns "no selection" for a key that is no digit and
\* for a digit d that is not below the registry size, and for a digit d
\* below the size the entry with exactly d smaller entries; so digit 0
\* gives the smallest entry.
C9_Selection ==
    ret.op = "handle_input" =>
        LET d == ClaimedDigit(ret.code)
        IN  IF d = << >> \/ d[1] >= Cardinality(Entries(links))
            THEN ret.value = << >>
            ELSE /\ Len(ret.value) = 1
                 /\ ClaimedSelection(d[1]) = {ret.value[1]}

\* Digit 0 selected the smallest entry, which is not the first link of the
\* document.
C9_Witness ==
    /\ ret.op = "handle_input"
    /\ ret.code = KeyChar("0")
    /\ Len(links) = 3
    /\ ret.value = <<links[1]>>
    /\ ret.value # <<ClaimedDest(input[1].tag)>>

\* Two calls in a row are the same call.
SameCall ==
    /\ ret'.op = ret.op
    /\ ret.op = "handle_input" => ret'.code = ret.code

\* C10: once constructed, a Document keeps its input, its registry and its
\* parsed output through every handle_input and get_text; a call repeated
\* returns what it returned before; the parse does not run again.
C10_Immutable ==
    [][pc = "done" =>
         /\ input' = input /\ links' = links /\ parsed_text' = parsed_text
         /\ pc' = "done" /\ pos' = pos
         /\ SameCall => ret' = ret]_vars

\* A get_text follows a handle_input that selected a link.
C10_Witness ==
    /\ pc = "done"
    /\ ret.op = "handle_input"
    /\ ret.value # << >>
    /\ ENABLED GetText
    /\ links # << >>
    /\ parsed_text # None

\* C11: the start of a blockquote, strikethrough, superscript or subscript
\* does not abort the parse: the fold goes on to the next event, and the
\* wrapper changes neither the stack, the current line, the output nor the
\* registry, so the text inside it is appended as it would be without it.
C11_Unsupported ==
    [][(Parsing /\ event.ev = "Start"
        /\ event.tag.name \in {"BlockQuote", "Strikethrough", "Superscript", "Subscript"}) =>
          /\ pc' = "parse"
          /\ pos' = pos + 1
          /\ UNCHANGED <<current_line, lines, state_stack, links>>]_vars

\* C12: the parse of every finite stream consumes each event once and
\* reaches its end, never stopping before it; construction then leaves the
\* parsed output present, and get_text returns the parsed Lines, never the
\* raw input.
C12_Completes ==
    /\ [](pc \in {"parse", "done"})
    /\ [][Parsing => (pc' = "parse" /\ pos' = pos + 1)]_vars
    /\ [](pc = "done" => (pos = Len(input) + 1 /\ parsed_text = <<lines>>))
    /\ [](ret.op = "get_text" => ret.text = lines)

\* The context a start event pushes according to the claim, << >> if none.
ClaimedPush(e) ==
    IF e.tag.name = "Heading" THEN <<[state |-> "Heading", level |-> e.tag.level]>>
    ELSE IF e.tag.name = "Strong" THEN <<[state |-> "Strong"]>>
    ELSE IF e.tag.name = "Emphasis" THEN <<[state |-> "Emphasis"]>>
    ELSE IF e.tag.name = "CodeBlock" THEN <<[state |-> "Code"]>>
    ELSE IF e.tag.name = "List" THEN <<[state |-> "List"]>>
    ELSE << >>

\* The contexts of the starts at the positions open, outermost first.
RECURSIVE ClaimedContexts(_, _)
ClaimedContexts(s, open) ==
    IF open = << >> THEN << >>
    ELSE ClaimedPush(s[Head(open)]) \o ClaimedContexts(s, Tail(open))

\* C13: while the events handled are properly nested, the stack is Normal
\* followed by one context for each open heading, strong, emphasis, code
\* block and list start, in their order, and nothing for any other open
\* start: Normal is at the bottom and nowhere else, a start pushes at most
\* one context, an end pops what its start pushed, and a balanced stream
\* ends with the stack [Normal].
C13_StackMirrors ==
    OpenStarts(input, pos - 1) # <<0>> =>
        LET claimed == ClaimedContexts(input, OpenStarts(input, pos - 1))
        IN  /\ Len(state_stack) = 1 + Len(claimed)
            /\ state_stack[1] = [state |-> "Normal"]
            /\ \A j \in 1..Len(claimed) :
                  /\ state_stack[j + 1].state = claimed[j].state
                  /\ claimed[j].state = "Heading" =>
                        state_stack[j + 1].level = claimed[j].level

\* A heading that holds a strong span was parsed to its end.
C13_Witness ==
    /\ pc = "done"
    /\ input = <<Start(TagHeading(1)), Start(Tag("Strong")), End("Strong"), End("Heading")>>
    /\ state_stack = <<[state |-> "Normal"]>>

\* C14: the output is append-only: over every step of the fold the output
\* before the step is a prefix of the output after it, so a pushed Line is
\* never changed, removed or reordered.
C14_AppendOnly ==
    [][/\ Len(lines') >= Len(lines)
       /\ SubSeq(lines', 1, Len(lines)) = lines]_vars

\* A list of two items was parsed: the Line of the first item is still the
\* first Line after the second item and the list end were handled.
C14_Witness ==
    /\ pc = "done"
    /\ Len(input) = 8
    /\ input[8] = End("List")
    /\ Len(lines) = 2
    /\ lines[1].spans # << >>
    /\ lines[2].spans # << >>

\* The fold is at an event that flushes the current line only when it holds
\* a span, or at the end of the stream.
AtConditionalFlush ==
    /\ pc = "parse"
    /\ \/ pos = Len(input) + 1
       \/ /\ pos <= Len(input)
          /\ \/ /\ input[pos].ev = "Start"
                /\ input[pos].tag.name \in {"Heading", "Paragraph", "List", "Item"}
             \/ /\ input[pos].ev = "End"
                /\ input[pos].tag.name = "Item"

\* The fold is at a heading end or a paragraph end.
AtBlockEnd ==
    /\ pc = "parse" /\ pos <= Len(input)
    /\ input[pos].ev = "End"
    /\ input[pos].tag.name \in {"Heading", "Paragraph"}

\* C15: a heading end and a paragraph end add exactly two Lines, the current
\* line (even without spans) and then one blank Line, and leave the current
\* line empty and unstyled; a heading, paragraph, list or item start, an item
\* end and the end of the stream add the current line only when it has a
\* span, and never a blank Line.
C15_Flushes ==
    [][/\ AtBlockEnd =>
            /\ lines' = lines \o <<current_line, BlankLine>>
            /\ current_line' = BlankLine
       /\ AtConditionalFlush =>
            lines' = IF current_line.spans # << >>
                     THEN lines \o <<current_line>>
                     ELSE lines]_vars

\* A heading without text was closed: its styled Line without spans and one
\* blank Line were added, and the end of the stream added nothing.
C15_Witness ==
    /\ pc = "done"
    /\ input = <<Start(TagHeading(1)), End("Heading")>>
    /\ Len(lines) = 2
    /\ lines[1].spans = << >>
    /\ lines[1] # BlankLine
    /\ lines[2] = BlankLine

\* The fold is at a start or end event of one of the tags named.
AtTagOf(evs, names) ==
    /\ pc = "parse" /\ pos <= Len(input)
    /\ input[pos].ev \in evs
    /\ input[pos].tag.name \in names

\* The fold is at an event of one of the kinds named.
AtEventOf(kinds) ==
    /\ pc = "parse" /\ pos <= Len(input)
    /\ input[pos].ev \in kinds

\* C16: strong, emphasis and code-block starts and ends, link starts,
\* footnote references, thematic breaks and task-list markers leave the
\* current line and the output unchanged; a link start leaves the stack
\* unchanged, the strong, emphasis and code events leave the registry
\* unchanged, the three leaf events change neither; and no event other than
\* a link start changes the registry.
C16_Frame ==
    [][/\ AtTagOf({"Start", "End"}, {"Strong", "Emphasis", "CodeBlock"}) =>
            UNCHANGED <<current_line, lines, links>>
       /\ AtTagOf({"Start"}, {"Link"}) =>
            UNCHANGED <<current_line, lines, state_stack>>
       /\ AtEventOf({"FootnoteReference", "Rule", "TaskListMarker"}) =>
            UNCHANGED <<current_line, lines, state_stack, links>>
       /\ ~AtTagOf({"Start"}, {"Link"}) => UNCHANGED links]_vars

\* A link start was handled after a text: the registry holds its entry, the
\* current line still holds the one span of the text, the output is empty.
C16_Witness ==
    /\ pos = 3
    /\ Len(input) = 2
    /\ input[1].ev = "Text"
    /\ input[2].ev = "Start"
    /\ input[2].tag.name = "Link"
    /\ Len(links) = 1
    /\ Len(current_line.spans) = 1
    /\ lines = << >>
    /\ state_stack = <<[state |-> "Normal"]>>

\* Event q of the input is one that occurs inside a heading: a text-like
\* event, a break, or the start or end of an inline wrapper.
IsInline(q) ==
    \/ input[q].ev \in TextLikeKinds \cup {"SoftBreak", "HardBreak"}
    \/ /\ input[q].ev \in {"Start", "End"}
       /\ input[q].tag.name \in {"Strong", "Emphasis", "Link"}

\* The position of the heading start whose content the fold is in: the one
\* open heading start of a properly nested prefix followed by inline events
\* only; 0 outside a heading.
InHeading ==
    LET open == OpenStarts(input, pos - 1)
        hs == {q \in 1..(pos - 1) :
                 /\ \E i \in 1..Len(open) : open[i] = q
                 /\ input[q].tag.name = "Heading"}
    IN  IF /\ open # <<0>>
           /\ Cardinality(hs) = 1
           /\ \A h \in hs : \A q \in (h + 1)..(pos - 1) : IsInline(q)
        THEN CHOOSE h \in hs : TRUE
        ELSE 0

\* The line style is the one the claim gives a heading of level L.
HasHeadingStyle(style, L) ==
    /\ L = 1 => "BOLD" \in style.add_modifier
    /\ L = 2 => "ITALIC" \in style.add_modifier
    /\ L \in 3..6 => style.fg # "None"

\* C17: a Span appended inside a heading of level L, by a text-like event or
\* a soft break, lands in a Line whose line style is the style of level L,
\* also after a hard break or a soft break inside the heading.
C17_HeadingCovers ==
    [][(/\ Parsing
        /\ event.ev \in TextLikeKinds \cup {"SoftBreak"}
        /\ InHeading # 0) =>
            HasHeadingStyle(current_line'.style, input[InHeading].tag.level)]_vars

\* The contents of the Spans of the Lines ls, line by line in order.
RECURSIVE Contents(_)
Contents(ls) ==
    IF ls = << >> THEN << >>
    ELSE [i \in 1..Len(Head(ls).spans) |-> Head(ls).spans[i].content]
         \o Contents(Tail(ls))

\* A list marker and the Span of a soft break end in a space; no payload of
\* the inputs holds one.
IsMarkerOrSpace(c) == c # << >> /\ c[Len(c)] = " "

\* The texts of the Lines ls, leaving out markers and soft-break spaces.
TextsIn(ls) == SelectSeq(Contents(ls), LAMBDA c : ~IsMarkerOrSpace(c))

\* The payloads of the text-like events among the first n events of s.
LeafTexts(s, n) ==
    LET leaf == SelectSeq(SubSeq(s, 1, n), LAMBDA e : e.ev \in TextLikeKinds)
    IN  [i \in 1..Len(leaf) |-> leaf[i].text]

\* C18: no text is lost or reordered: during the fold the texts of the
\* output followed by the current line are the payloads of the text-like
\* events handled so far, in order and one Span each, and the texts of the
\* final output are the payloads of all text-like events of the stream,
\* balanced or not.
C18_NoTextLost ==
    /\ pc = "parse" =>
          TextsIn(Append(lines, current_line)) = LeafTexts(input, pos - 1)
    /\ pc = "done" =>
          /\ parsed_text # None
          /\ TextsIn(parsed_text[1]) = LeafTexts(input, Len(input))

\* A text followed by a heading with a text was parsed: the heading start
\* pushed the Line of the first text, and the final output holds the two
\* texts in stream order, on three Lines (the last one blank).
C18_Witness ==
    /\ pc = "done"
    /\ input = <<Leaf("Text", TextA), Start(TagHeading(1)), Leaf("Text", TextB),
                 End("Heading")>>
    /\ TextsIn(parsed_text[1]) = <<TextA, TextB>>
    /\ Len(parsed_text[1]) = 3

\* The position of the item start whose first inline text the event at pos
\* is: the item start directly before it, or before the paragraph start
\* directly before it, in a properly nested prefix with a list open; 0 if
\* the event at pos is no such text.
FirstTextOf ==
    LET p == IF pos >= 2 /\ input[pos - 1] = Start(Tag("Item")) THEN pos - 1
             ELSE IF /\ pos >= 3
                     /\ input[pos - 1] = Start(Tag("Paragraph"))
                     /\ input[pos - 2] = Start(Tag("Item")) THEN pos - 2
             ELSE 0
    IN  IF /\ p # 0
           /\ OpenStarts(input, pos - 1) # <<0>>
           /\ OpenLists(input, p - 1) # {}
        THEN p
        ELSE 0

\* C19: the Span of the first inline text of an item lies on the Line of the
\* item's marker, directly after the marker Span, whether the text follows
\* the item start directly or is wrapped in a paragraph inside the item.
C19_MarkerWithText ==
    [][(/\ Parsing
        /\ event.ev \in TextLikeKinds
        /\ FirstTextOf # 0) =>
            /\ Len(current_line'.spans) = 2
            /\ current_line'.spans[1].content = ClaimedMarker(input, FirstTextOf)
            /\ current_line'.spans[2].content = event.text]_vars

\* The event at pos is none of the four starts the parse does not support.
AtSupported ==
    /\ Parsing
    /\ ~(/\ event.ev = "Start"
         /\ event.tag.name \in {"BlockQuote", "Strikethrough", "Superscript", "Subscript"})

\* C20: on any stream of supported events, balanced or not, every event is
\* handled and the fold goes on; an end of heading, strong, emphasis, code
\* block or list removes the top context whatever its kind and leaves an
\* empty stack empty; an item start with no List on the stack appends no
\* marker; and the parse ends with the parsed output present.
C20_Unbalanced ==
    /\ [][/\ AtSupported => (pc' = "parse" /\ pos' = pos + 1)
          /\ AtTagOf({"End"}, {"Heading", "Strong", "Emphasis", "CodeBlock", "List"}) =>
                state_stack' = [i \in 1..(Len(state_stack) - 1) |-> state_stack[i]]
          /\ (/\ AtTagOf({"Start"}, {"Item"})
              /\ \A i \in 1..Len(state_stack) : state_stack[i].state # "List") =>
                /\ current_line'.spans = << >>
                /\ state_stack' = state_stack]_vars
    /\ [](pc = "done" => parsed_text = <<lines>>)

\* Two surplus ends of strong were parsed to the end: the first removed
\* Normal, the second found the stack empty and left it so.
C20_Witness ==
    /\ pc = "done"
    /\ input = <<End("Strong"), End("Strong")>>
    /\ state_stack = << >>
    /\ parsed_text = <<lines>>

====
